---- MODULE Spec2Model ----
(***************************************************************************)
(* The range-select controller of src/trace.js: one closure per timeline,  *)
(* driven by the mousedown, mousemove and mouseup events of its            *)
(* .timeline-target element.  The file holds two revisions of the          *)
(* controller (lines 1-105 and 107-214) whose handlers are the same        *)
(* statement for statement; they differ only in how $details and the       *)
(* element carrying the "visible" class are looked up.  The model follows  *)
(* the first one.                                                          *)
(*                                                                         *)
(* Numbers.  A normalized coordinate e.offsetX / $target.clientWidth is    *)
(* kept as its numerator offsetX over the fixed denominator ClientWidth,   *)
(* and duration * span.from is kept in the same unit, so every comparison  *)
(* of the code is made exactly.  A nullable value is <<>> for null and     *)
(* <<v>> for v.                                                            *)
(***************************************************************************)
EXTENDS Integers, Sequences, FiniteSets

\* ---------------------------------------------------------------- bounds
\* $target.clientWidth in pixels; offsetX ranges over 0..ClientWidth.
ClientWidth == 6
\* Cap on the number of mousemove listeners registered on $target.
MaxListeners == 2

\* ------------------------------------------------------------- page data
\* Attribute values are strings of decimal digits, kept as digit sequences.
DataStartAttr == <<1, 0, 0, 0>>
DataEndAttr == <<2, 0, 0, 0>>

Entries == {"A", "B", "C", "D"}

EntryStartAttr ==
    [e \in Entries |->
        CASE e = "A" -> <<1, 1, 0, 0>>
          [] e = "B" -> <<1, 9, 0, 0>>
          [] e = "C" -> <<2, 5, 0>>
          [] e = "D" -> <<0>>]

EntryCloseAttr ==
    [e \in Entries |->
        CASE e = "A" -> <<1, 2, 0, 0>>
          [] e = "B" -> <<2, 0, 5, 0>>
          [] e = "C" -> <<7, 5, 0>>
          [] e = "D" -> <<1, 0, 0, 0>>]

Buttons == {0, 2}
OffsetXs == 0..ClientWidth

\* --------------------------------------------------------------- helpers
Null == <<>>
Some(v) == <<v>>

\* ToNumber of a nullable number: Math.min / Math.max coerce null to 0.
ToNumber(v) == IF v = Null THEN 0 ELSE v[1]

RECURSIVE parseInt(_)
parseInt(s) ==
    IF s = <<>> THEN 0
    ELSE 10 * parseInt(SubSeq(s, 1, Len(s) - 1)) + s[Len(s)]

Min(a, b) == IF a <= b THEN a ELSE b
Max(a, b) == IF a >= b THEN a ELSE b

\* Math.round(f * 100) for f = n / ClientWidth, n >= 0 (round half up).
RoundPercent(n) == (200 * n + ClientWidth) \div (2 * ClientWidth)

\* ----------------------------------------------------------------- state
VARIABLES
    move,       \* the closure variable move: Null or Some("fn")
    start,      \* the closure variable start: Null or Some(numerator)
    slider,     \* the closure variable slider: Null or Some("el")
    span,       \* [from, to], each Null or Some(numerator)
    visible,    \* $details.classList contains "visible"
    hidden,     \* the entries whose classList contains "hidden"
    listeners,  \* number of mousemove listeners registered on $target
    domSliders, \* number of .slider elements under $target.parentElement
    style,      \* inline style of the slider element in the document
    gesture,    \* history: what happened since the latest mousedown
    lastCommit, \* history: span and result of the latest commit
    last        \* history: the event handled by the latest step

vars == <<move, start, slider, span, visible, hidden, listeners, domSliders,
          style, gesture, lastCommit, last>>

NoEvent == [type |-> "load", button |-> 0, path |-> "none",
            hadSlider |-> FALSE, wasVisible |-> FALSE, preHidden |-> {},
            inGesture |-> FALSE, hadListener |-> FALSE, repeat |-> FALSE]

Init ==
    /\ move = Null
    /\ start = Null
    /\ slider = Null
    /\ span = [from |-> Null, to |-> Null]
    /\ visible \in BOOLEAN
    /\ hidden = {}
    /\ listeners = 0
    /\ domSliders = 0
    /\ style = Null
    /\ gesture = Null
    /\ lastCommit = Null
    /\ last = NoEvent

\* ------------------------------------------------------- show and toggle
\* A commit that toggles the panel instead of showing it.
showToggles(v) == ~v

\* classList.add("visible")
show(v) == TRUE

\* classList.toggle("visible")
toggle(v) == ~v

\* ---------------------------------------------------------- clearSlider
\* duration = end - start, with the handler's own start and end.
duration == parseInt(DataEndAttr) - parseInt(DataStartAttr)

\* from = duration * span.from and to = duration * span.to, as numerators
\* over ClientWidth.
mapFrom(sp) == duration * sp.from[1]
mapTo(sp) == duration * sp.to[1]

\* A window test with exclusive boundaries.
outsideWindowExclusive(e, from, to) ==
    \/ parseInt(EntryStartAttr[e]) * ClientWidth <= from
    \/ parseInt(EntryCloseAttr[e]) * ClientWidth >= to

\* The test of the forEach callback: entryStart < from || entryClose > to.
\* The entry's integers are scaled to the unit of from and to.
outsideWindow(e, from, to) ==
    \/ parseInt(EntryStartAttr[e]) * ClientWidth < from
    \/ parseInt(EntryCloseAttr[e]) * ClientWidth > to

\* A callback without the else branch: an entry inside the window keeps its
\* class.
filterEntryKeeps(e, from, to, h) ==
    IF outsideWindow(e, from, to) THEN TRUE ELSE h

\* A callback that toggles the class of an entry outside the window.
filterEntryToggles(e, from, to, h) ==
    IF outsideWindow(e, from, to) THEN ~h ELSE FALSE

\* The entry's "hidden" class after the callback; h is the class before it.
filterEntry(e, from, to, h) ==
    IF outsideWindow(e, from, to) THEN TRUE ELSE FALSE

\* An else branch that leaves the entries' classes as they are.
unhideAllKeeps(h) == h

\* The hidden entries after the forEach of the else branch, which removes
\* "hidden" from every entry.
unhideAll(h) == {}

\* The branch taken by clearSlider.
commits == span.from # Null /\ span.to # Null

\* The record kept in last for an event handled in the current state.
Event(type, button) ==
    [type |-> type, button |-> button,
     path |-> IF type # "up" THEN "none"
              ELSE IF commits THEN "commit" ELSE "click",
     hadSlider |-> slider # Null, wasVisible |-> visible,
     preHidden |-> hidden, inGesture |-> gesture # Null,
     hadListener |-> move # Null,
     repeat |-> /\ type = "up"
                /\ commits
                /\ lastCommit # Null
                /\ lastCommit[1].span = span]

clearSlider ==
    /\ IF commits
       THEN /\ hidden' = {e \in Entries :
                            filterEntry(e, mapFrom(span), mapTo(span),
                                        e \in hidden)}
            /\ visible' = show(visible)
            /\ span' = [from |-> Null, to |-> Null]
            /\ lastCommit' = Some([span |-> span, hidden |-> hidden'])
            /\ UNCHANGED <<slider, domSliders, style>>
       ELSE /\ IF slider # Null
               THEN /\ domSliders' = domSliders - 1
                    /\ slider' = Null
                    /\ style' = Null
               ELSE UNCHANGED <<slider, domSliders, style>>
            /\ hidden' = unhideAll(hidden)
            /\ visible' = toggle(visible)
            /\ UNCHANGED <<span, lastCommit>>
    /\ IF move # Null
       THEN /\ listeners' = listeners - 1
            /\ move' = Null
       ELSE UNCHANGED <<move, listeners>>
    /\ start' = Null

\* ------------------------------------------------------------- handlers
\* A mousedown that forgets the slider of the earlier gesture.
keepLeftover(sl, n) == n

\* The slider elements left in the document once mousedown has removed the
\* one the closure still refers to.
removeLeftover(sl, n) == IF sl # Null THEN n - 1 ELSE n

mousedown(offsetX, button) ==
    /\ listeners < MaxListeners
    /\ domSliders' = removeLeftover(slider, domSliders) + 1
    /\ slider' = Some("el")
    /\ style' = Null
    /\ start' = Some(offsetX)
    /\ move' = Some("fn")
    /\ listeners' = listeners + 1
    /\ gesture' = Some([moved |-> FALSE, disp |-> 0])
    /\ last' = Event("down", button)
    /\ UNCHANGED <<span, visible, hidden, lastCommit>>

\* A span that keeps the drag direction: from the origin to the pointer.
newSpanDirected(st, current) ==
    [from |-> Some(ToNumber(st)), to |-> Some(current)]

\* span.from and span.to as the move listener computes them.
newSpan(st, current) ==
    [from |-> Some(Min(ToNumber(st), current)),
     to |-> Some(Max(ToNumber(st), current))]

\* A move listener that also shows the panel.
moveFrameShows ==
    /\ visible' = TRUE
    /\ UNCHANGED <<move, start, slider, hidden, listeners, domSliders,
                   lastCommit>>

\* What the move listener leaves alone.
moveFrame ==
    UNCHANGED <<move, start, slider, visible, hidden, listeners, domSliders,
                lastCommit>>

\* A mousemove on $target runs every registered listener; all of them read
\* the same start and event, so they write the same span.  Only the listener
\* of the latest mousedown (registered while move is set) styles the slider
\* that is in the document; a listener left over from an earlier mousedown
\* styles an element that mousedown has already removed.
mousemove(offsetX) ==
    /\ listeners > 0
    /\ span' = newSpan(start, offsetX)
    /\ style' = IF move # Null
                THEN Some([left |-> RoundPercent(span'.from[1]),
                           width |-> RoundPercent(span'.to[1] - span'.from[1])])
                ELSE style
    /\ gesture' = IF gesture = Null THEN Null
                  ELSE Some([moved |-> TRUE,
                             disp |-> Max(gesture[1].disp,
                                          Max(offsetX - ToNumber(start),
                                              ToNumber(start) - offsetX))])
    /\ last' = Event("move", 0)
    /\ moveFrame

mouseup ==
    /\ clearSlider
    /\ gesture' = Null
    /\ last' = Event("up", 0)

\* A mouseup away from $target: the only mouseup listener is the one on
\* $target, so no handler runs and the controller keeps its state.
mouseupOutside ==
    /\ last' = Event("upOutside", 0)
    /\ UNCHANGED <<move, start, slider, span, visible, hidden, listeners,
                   domSliders, style, gesture, lastCommit>>

Next ==
    \/ \E offsetX \in OffsetXs, button \in Buttons : mousedown(offsetX, button)
    \/ \E offsetX \in OffsetXs : mousemove(offsetX)
    \/ mouseup
    \/ mouseupOutside

Spec == Init /\ [][Next]_vars

TypeOK ==
    /\ move \in {Null, Some("fn")}
    /\ start \in {Null} \cup {Some(n) : n \in OffsetXs}
    /\ slider \in {Null, Some("el")}
    /\ visible \in BOOLEAN
    /\ hidden \subseteq Entries
    /\ listeners \in 0..MaxListeners
    /\ domSliders \in 0..2

\* ================================================================ claims
\* LIMIT = 0.001 of the specification, applied to a numerator d over
\* ClientWidth: d / ClientWidth > 0.001.
exceedsLimit(d) == d * 1000 > ClientWidth

\* A step that handled a mouseup.
upStep == last'.type = "up"

\* C1: the mouseup of a gesture whose displacement from the origin never
\* exceeded LIMIT toggles the panel's visible flag and leaves no entry hidden.
C1_ClickTogglesPanel ==
    [][(upStep /\ gesture # Null /\ ~exceedsLimit(gesture[1].disp))
        => (visible' = ~visible /\ hidden' = {})]_vars

\* C2: during a gesture a slider element exists if and only if a mousemove
\* since the current mousedown went past LIMIT.
C2_SliderIffPastThreshold ==
    gesture # Null =>
        (domSliders > 0 <=> exceedsLimit(gesture[1].disp))

\* C3: the mouseup of a gesture whose span is wider than LIMIT leaves the
\* panel visible whatever it was, and the slider of the gesture is in the
\* document when the mouseup is handled and after it.
C3_DragForcesPanelVisible ==
    [][(/\ upStep
        /\ gesture # Null
        /\ commits
        /\ exceedsLimit(span.to[1] - span.from[1]))
        => (/\ visible'
            /\ slider # Null /\ domSliders = 1
            /\ slider' # Null /\ domSliders' = 1)]_vars

C3_Witness ==
    /\ last.type = "up"
    /\ last.path = "commit"
    /\ last.inGesture
    /\ exceedsLimit(lastCommit[1].span.to[1] - lastCommit[1].span.from[1])
    /\ last.wasVisible
    /\ visible
    /\ domSliders = 1

\* C4: after every handled mousemove span.from <= span.to, for a pointer to
\* the right or to the left of the origin.
C4_SpanOrdered ==
    last.type = "move" =>
        /\ span.from # Null
        /\ span.to # Null
        /\ span.from[1] <= span.to[1]

C4_Witness ==
    /\ last.type = "move"
    /\ last.inGesture
    /\ span.to = start
    /\ span.from[1] < start[1]

\* C5: with data-start 1000, data-end 2000, A = [1100, 1200] and
\* B = [1900, 2050], the mouseup that commits the span [0.0, 0.5] leaves A not
\* hidden, B hidden and the panel visible.
C5_ScenarioHalfWindow ==
    (/\ last.type = "up"
     /\ last.path = "commit"
     /\ lastCommit[1].span.from = Some(0)
     /\ 2 * lastCommit[1].span.to[1] = ClientWidth)
    => (/\ "A" \notin hidden
        /\ "B" \in hidden
        /\ visible)

\* C6: a mouseup handled while no motion listener is registered and no
\* gesture is open changes nothing of the controller or the page.
C6_IdleMouseupIsNoop ==
    [][(upStep /\ listeners = 0 /\ gesture = Null)
        => UNCHANGED <<move, start, slider, span, visible, hidden, listeners,
                       domSliders, style>>]_vars

\* C7: a commit of the span that the commit before it had leaves the same
\* set of hidden entries as that commit did, whatever the hidden flags were
\* in between.
C7_CommitIdempotent ==
    [][(/\ upStep
        /\ commits
        /\ lastCommit # Null
        /\ lastCommit[1].span = span)
        => hidden' = lastCommit[1].hidden]_vars

C7_Witness ==
    /\ last.type = "up"
    /\ last.repeat
    /\ last.inGesture
    /\ listeners = 0
    /\ last.preHidden = hidden
    /\ "C" \in hidden

\* C8: on a commit an entry whose start equals from and whose close equals
\* to stays visible, and an entry that touches one boundary and lies within
\* the other is not hidden either.
C8_BoundariesInclusive ==
    [][(upStep /\ commits) =>
        \A e \in Entries :
            LET s == parseInt(EntryStartAttr[e]) * ClientWidth
                c == parseInt(EntryCloseAttr[e]) * ClientWidth
            IN  /\ (s = mapFrom(span) /\ c <= mapTo(span)) => e \notin hidden'
                /\ (c = mapTo(span) /\ s >= mapFrom(span)) => e \notin hidden'
      ]_vars

C8_Witness ==
    /\ last.type = "up"
    /\ last.path = "commit"
    /\ last.inGesture
    /\ listeners = 0
    /\ \E e \in Entries :
          /\ parseInt(EntryStartAttr[e]) * ClientWidth
                = mapFrom(lastCommit[1].span)
          /\ parseInt(EntryCloseAttr[e]) * ClientWidth
                = mapTo(lastCommit[1].span)
          /\ e \in last.preHidden
          /\ e \notin hidden

\* C9: at most one slider element is in the document, and it is the one the
\* closure refers to; a mousedown removes the slider it finds before it
\* inserts its own.
C9_AtMostOneSlider ==
    /\ domSliders <= 1
    /\ domSliders = 1 <=> slider # Null

C9_Witness ==
    /\ last.type = "down"
    /\ last.hadSlider
    /\ domSliders = 1

\* C10: a step that changes the panel's visible flag or an entry's hidden
\* flag is a step that handled a mouseup, never a mousedown or a mousemove.
C10_FlagsChangeOnlyOnMouseup ==
    [][(visible' # visible \/ hidden' # hidden) => upStep]_vars

C10_Witness ==
    /\ last.type = "move"
    /\ last.inGesture
    /\ visible
    /\ last.wasVisible
    /\ hidden # {}
    /\ last.preHidden = hidden
    /\ span.from # span.to

\* A step that handled a mousedown.
downStep == last'.type = "down"

\* C11: at most one mousemove listener is registered at any moment, and
\* exactly one while a gesture is open, also after two mousedowns with no
\* mouseup on the track between them.
C11_OneMotionListener ==
    /\ listeners <= 1
    /\ gesture # Null => listeners = 1

\* C12: after any mouseup that follows a mousedown, on the track or away
\* from it, the controller is idle: no motion listener is registered.
C12_AnyMouseupEndsGesture ==
    (last.type \in {"up", "upOutside"} /\ last.inGesture)
        => (move = Null /\ listeners = 0)

\* C13: after every handled mouseup no motion listener is registered, the
\* origin is null and the span is cleared, so a mousemove before the next
\* mousedown changes neither the span nor the slider.
C13_MouseupResetsGesture ==
    /\ last.type = "up" =>
          /\ listeners = 0
          /\ move = Null
          /\ start = Null
          /\ span = [from |-> Null, to |-> Null]
    /\ (last.type = "move" /\ ~last.inGesture) =>
          span = [from |-> Null, to |-> Null]

\* C14: a mousedown with a button other than the primary one leaves the
\* controller as it was: no slider, no listener, no origin, nothing removed.
C14_NonPrimaryButtonIgnored ==
    [][(downStep /\ last'.button # 0)
        => UNCHANGED <<move, start, slider, span, visible, hidden, listeners,
                       domSliders, style>>]_vars

\* C15: on the click path of a mouseup every hidden flag is cleared; a
\* slider that exists is removed and the panel's visible flag is unchanged;
\* the panel is toggled only when no slider existed.
C15_ClickWithSliderKeepsPanel ==
    [][(upStep /\ ~commits) =>
        /\ hidden' = {}
        /\ slider' = Null
        /\ domSliders' = 0
        /\ slider # Null => visible' = visible
        /\ slider = Null => visible' = ~visible]_vars

\* C16: after every mousemove span.from and span.to lie in [0, 1] and are
\* multiples of 1/1000.
C16_SpanClampedAndRounded ==
    last.type = "move" =>
        \A n \in {span.from[1], span.to[1]} :
            /\ 0 <= n
            /\ n <= ClientWidth
            /\ (n * 1000) % ClientWidth = 0

\* C17: a commit leaves an entry hidden if and only if entryStart < from or
\* entryClose > to, with from = duration * span.from, to = duration *
\* span.to and duration = end - start; every other entry ends visible.
C17_CommitFiltersEveryEntry ==
    [][(upStep /\ commits) =>
        \A e \in Entries :
            LET d == parseInt(DataEndAttr) - parseInt(DataStartAttr)
                entryStart == parseInt(EntryStartAttr[e])
                entryClose == parseInt(EntryCloseAttr[e])
            IN  e \in hidden' <=>
                    \/ entryStart * ClientWidth < d * span.from[1]
                    \/ entryClose * ClientWidth > d * span.to[1]]_vars

C17_Witness ==
    /\ last.type = "up"
    /\ last.path = "commit"
    /\ last.inGesture
    /\ hidden # {}
    /\ hidden # Entries
    /\ last.preHidden \ hidden # {}

\* C18: whenever an entry is hidden the panel is visible.
C18_HiddenEntryImpliesPanelVisible ==
    hidden # {} => visible

C18_Witness ==
    /\ last.type = "up"
    /\ last.path = "click"
    /\ last.inGesture
    /\ last.preHidden # {}
    /\ last.wasVisible
    /\ hidden = {}
    /\ ~visible

\* C19: a mouseup takes the commit path only if a mousemove was handled
\* after the mousedown of the same gesture.
C19_CommitNeedsMoveInGesture ==
    [][(upStep /\ commits) => (gesture # Null /\ gesture[1].moved)]_vars

\* C20: the mouseup that commits a drag leaves the slider in the document;
\* the slider then stays until a mousedown removes it, and the click-path
\* mouseup of a gesture leaves no slider.
C20_CommittedSliderStaysUntilMousedown ==
    [][/\ (upStep /\ commits /\ gesture # Null)
            => (slider' # Null /\ domSliders' = 1)
       /\ (slider # Null /\ gesture = Null /\ ~downStep)
            => (slider' # Null /\ domSliders' = 1)
       /\ (upStep /\ ~commits /\ gesture # Null)
            => (slider' = Null /\ domSliders' = 0)]_vars

====
